---- MODULE Spec2Model ----
(***************************************************************************)
(* State-machine model of the authentication backend:                      *)
(*   backend/api/v1/app.py          JWT configuration, Redis blocklist,    *)
(*                                  token loaders, revoke_token            *)
(*   backend/api/v1/views/users.py  register, login, refresh, logout,      *)
(*                                  change password, delete, reset flow    *)
(*   backend/models/user.py         password hashing on the User record    *)
(*                                                                         *)
(* Time is in seconds.  Every request handler is one action, and the clock *)
(* advances between requests.  What a handler answers is the operator      *)
(* <handler>_response of the request and the state the request finds; what *)
(* it does to the stores is the action <handler>.  A request that is       *)
(* turned away changes nothing.                                            *)
(***************************************************************************)
EXTENDS Integers, Sequences, FiniteSets, TLC

\* ------------------------------------------------------------------ bounds
MaxTicks  == 2      \* clock advances in one behaviour
MaxTokens == 3      \* session tokens minted in one behaviour
MaxUsers  == 2      \* user records created in one behaviour
MaxResets == 2      \* reset tokens generated in one behaviour
MaxWorkers == 2     \* requests the server handles at the same time

\* ------------------------------------------------- configuration (app.py)
JWT_ACCESS_TOKEN_EXPIRES  == 3600       \* timedelta(hours=1)
JWT_REFRESH_TOKEN_EXPIRES == 2592000    \* timedelta(days=30)
MIN_PASSWORD_LEN == 6
MIN_USERNAME_LEN == 3
MAX_USERNAME_LEN == 30

\* The clock steps the model takes: one second, just short of an access
\* lifetime, and a whole refresh lifetime.
Deltas == {1, JWT_ACCESS_TOKEN_EXPIRES - 1, JWT_REFRESH_TOKEN_EXPIRES}

\* ------------------------------------------------------------ request data
None == ""                     \* a missing / empty request field (falsy)
NoResetToken == 0              \* reset_token IS NULL (and a missing "token")
Emails    == {"a@x.com", "b@x.com"}
Usernames == {"alice", "bob", "al"}
Passwords == {"secret1", "hunter22", "abc"}

\* Passwords longer than bcrypt reads: 73 bytes each, alike in the first 72.
LongPasswords ==
    {"aaaaaaaaaaaaaaaaaaaaaaaaaaaaaaaaaaaaaaaaaaaaaaaaaaaaaaaaaaaaaaaaaaaaaaaax",
     "aaaaaaaaaaaaaaaaaaaaaaaaaaaaaaaaaaaaaaaaaaaaaaaaaaaaaaaaaaaaaaaaaaaaaaaay"}

\* What may be assigned to user.password.
PasswordValues == Passwords \cup LongPasswords \cup {None}

\* The threads / processes that serve requests side by side, and a worker
\* that is handling no reset confirmation.
Workers == 1..MaxWorkers
Idle == [pc |-> "idle", token |-> 0, new_password |-> "", user |-> 0,
         status |-> 0, body |-> ""]

VARIABLES
    now,                  \* the server clock
    ticks,                \* how often the clock has advanced
    users,                \* the users table: id -> row
    users_created,        \* rows ever created (ids are never reused)
    issued,               \* every session token the server has minted
    minted_by,            \* history: jti -> the operation that minted it
    jwt_redis_blocklist,  \* Redis db 2: jti -> the time the key expires
    revoke_calls,         \* history: jti -> last and first revoke_token call
    resets_made,          \* reset tokens ever generated (uuid4: never reused)
    redis_up,             \* whether the blocklist Redis answers
    confirming            \* worker -> the reset confirmation it is handling

vars == <<now, ticks, users, users_created, issued, minted_by,
          jwt_redis_blocklist, revoke_calls, resets_made, redis_up, confirming>>

\* ------------------------------------------------------------ session tokens
\* The claims of a token plus whether its signature verifies under
\* JWT_SECRET_KEY.
NoToken == [jti |-> 0, sub |-> 0, type |-> "none", fresh |-> FALSE,
            iat |-> 0, exp |-> 0, sig |-> "none"]

\* A client may alter any claim of a token it holds; the HS256 signature then
\* no longer matches.
Forge(t) == [t EXCEPT !.fresh = TRUE, !.exp = t.exp + JWT_REFRESH_TOKEN_EXPIRES,
                      !.sig = "bad"]

\* What a request may carry in its Authorization header.
Presentable == issued \cup {Forge(t) : t \in issued} \cup {NoToken}

NextJti == Cardinality(issued) + 1

\* create_access_token(identity, fresh) at the current clock.
create_access_token(identity, fresh, jti) ==
    [jti |-> jti, sub |-> identity, type |-> "access", fresh |-> fresh,
     iat |-> now, exp |-> now + JWT_ACCESS_TOKEN_EXPIRES, sig |-> "good"]

\* create_refresh_token(identity) at the current clock.
create_refresh_token(identity, jti) ==
    [jti |-> jti, sub |-> identity, type |-> "refresh", fresh |-> FALSE,
     iat |-> now, exp |-> now + JWT_REFRESH_TOKEN_EXPIRES, sig |-> "good"]

\* ------------------------------------------------------------ the blocklist
\* Redis GET jti: a key set with EX ttl is gone once its time has come.
RedisGet(jti) ==
    IF jti \in DOMAIN jwt_redis_blocklist /\ now < jwt_redis_blocklist[jti]
    THEN "" ELSE "nil"

\* A slip: testing the stored value for truth; the marker stored is "".
check_if_token_revoked_Truthy(jwt_payload) ==
    RedisGet(jwt_payload.jti) \notin {"nil", ""}

\* check_if_token_revoked: token_in_redis is not None.
check_if_token_revoked(jwt_payload) == RedisGet(jwt_payload.jti) # "nil"

\* A slip: the lifetimes read in hours instead of seconds.
RevokeTtl_Hours(token_type) ==
    IF token_type = "refresh" THEN JWT_REFRESH_TOKEN_EXPIRES \div 3600
    ELSE JWT_ACCESS_TOKEN_EXPIRES \div 3600

\* A slip: the two branches the wrong way round.
RevokeTtl_Swapped(token_type) ==
    IF token_type = "refresh" THEN JWT_ACCESS_TOKEN_EXPIRES
    ELSE JWT_REFRESH_TOKEN_EXPIRES

\* The TTL revoke_token picks for a token type.
RevokeTtl(token_type) ==
    IF token_type = "refresh" THEN JWT_REFRESH_TOKEN_EXPIRES
    ELSE JWT_ACCESS_TOKEN_EXPIRES

\* A slip: revocation as a toggle, a second call on a key that is still there
\* taking it away again.
revoke_token_Toggle(jti, token_type) ==
    IF RedisGet(jti) # "nil"
    THEN [k \in DOMAIN jwt_redis_blocklist \ {jti} |-> jwt_redis_blocklist[k]]
    ELSE [k \in DOMAIN jwt_redis_blocklist \cup {jti} |->
            IF k = jti THEN now + RevokeTtl(token_type)
            ELSE jwt_redis_blocklist[k]]

\* revoke_token: SET jti "" EX ttl.
revoke_token(jti, token_type) ==
    [k \in DOMAIN jwt_redis_blocklist \cup {jti} |->
        IF k = jti THEN now + RevokeTtl(token_type)
        ELSE jwt_redis_blocklist[k]]

\* ------------------------------------------------------------ verification
\* The outcomes of the jwt_required decorator, as the loaders of app.py and
\* the library's default for a stale token answer them.
OK            == "ok"
MISSING       == "Authorization token is required"
INVALID       == "Invalid token"
EXPIRED       == "Token has expired"
NEEDS_FRESH   == "Fresh token required"
REVOKED       == "Token has been revoked"
SERVER_ERROR  == "Internal Server Error"

\* A slip: the blocklist asked as soon as the signature has verified, before
\* the exp claim is looked at.
jwt_required_BlocklistFirst(tok, refresh, fresh) ==
    IF tok = NoToken THEN [err |-> MISSING, lookups |-> 0]
    ELSE IF tok.sig # "good" THEN [err |-> INVALID, lookups |-> 0]
    ELSE IF ~redis_up THEN [err |-> SERVER_ERROR, lookups |-> 1]
    ELSE IF check_if_token_revoked(tok) THEN [err |-> REVOKED, lookups |-> 1]
    ELSE IF tok.exp <= now THEN [err |-> EXPIRED, lookups |-> 1]
    ELSE IF refresh # (tok.type = "refresh") THEN [err |-> INVALID, lookups |-> 1]
    ELSE IF fresh /\ ~tok.fresh THEN [err |-> NEEDS_FRESH, lookups |-> 1]
    ELSE [err |-> OK, lookups |-> 1]

\* jwt_required(refresh, fresh) on a presented token.  The decorator decodes
\* the token (signature, then the exp claim), checks its type against the
\* endpoint's (an endpoint without refresh=True takes only non-refresh
\* tokens), checks freshness when fresh=True and asks the blocklist loader
\* last.  lookups counts the Redis GETs the verification made.
jwt_required(tok, refresh, fresh) ==
    IF tok = NoToken THEN [err |-> MISSING, lookups |-> 0]
    ELSE IF tok.sig # "good" THEN [err |-> INVALID, lookups |-> 0]
    ELSE IF tok.exp <= now THEN [err |-> EXPIRED, lookups |-> 0]
    ELSE IF refresh # (tok.type = "refresh") THEN [err |-> INVALID, lookups |-> 0]
    ELSE IF fresh /\ ~tok.fresh THEN [err |-> NEEDS_FRESH, lookups |-> 0]
    ELSE IF ~redis_up THEN [err |-> SERVER_ERROR, lookups |-> 1]
    ELSE IF check_if_token_revoked(tok) THEN [err |-> REVOKED, lookups |-> 1]
    ELSE [err |-> OK, lookups |-> 1]

\* ------------------------------------------------------------ the User model
\* bcrypt works on the first 72 bytes of the password only.
BCRYPT_MAX_BYTES == 72
Truncate(value) ==
    IF Len(value) > BCRYPT_MAX_BYTES THEN SubSeq(value, 1, BCRYPT_MAX_BYTES)
    ELSE value

\* bcrypt.hashpw(value, salt): the digest is a function of the salt and of
\* the bytes of the password bcrypt reads; no two such byte strings share a
\* digest under one salt.
Salts == {1}
hashpw(value, salt) == [salt |-> salt, digest |-> <<salt, Truncate(value)>>]

\* A password_hash column that holds no bcrypt hash: a string bcrypt cannot
\* parse, or NULL.
MalformedHash == [salt |-> 0, digest |-> <<0, "malformed">>]
NoHash        == [salt |-> 0, digest |-> <<0, "NULL">>]
WellFormed(password_hash) == password_hash.salt \in Salts

\* User.verify_password raises when bcrypt.checkpw is handed a malformed
\* hash (ValueError: Invalid salt) or the hash is None (AttributeError on
\* .encode()); the method catches neither.
verify_password_raises(user) == ~WellFormed(user.password_hash)

\* User.verify_password on a well-formed hash: bcrypt.checkpw re-hashes with
\* the stored salt.
verify_password(user, password) ==
    hashpw(password, user.password_hash.salt) = user.password_hash

\* User.__setattr__("password", value): a truthy value is hashed into
\* password_hash, a falsy one is dropped; the plaintext is never stored.
User_setattr_password(user, value, salt) ==
    IF value = None THEN user
    ELSE [user EXCEPT !.password_hash = hashpw(value, salt)]

\* storage.filter_by(User, email=...), .first(): the row or none.
ByEmail(email) == {u \in DOMAIN users : users[u].email = email}
ByUsername(username) == {u \in DOMAIN users : users[u].username = username}
ByResetToken(token) == {u \in DOMAIN users : users[u].reset_token = token}

\* ------------------------------------------------------------ responses
\* What the client sees of a request: the status and message, the session
\* tokens and the reset token in the body; lookups counts the Redis GETs the
\* request made.
Resp(status, body) ==
    [status |-> status, body |-> body, out |-> {}, reset_token |-> 0, lookups |-> 0]

\* The response of a request the decorator turned away.
Rejected(v) ==
    [Resp(IF v.err = SERVER_ERROR THEN 500 ELSE 401, v.err)
        EXCEPT !.lookups = v.lookups]

\* The response of a handler body that ran behind the decorator.
Answer(v, status, body) == [Resp(status, body) EXCEPT !.lookups = v.lookups]

Init ==
    /\ now = 0
    /\ ticks = 0
    /\ users = <<>>
    /\ users_created = 0
    /\ issued = {}
    /\ minted_by = <<>>
    /\ jwt_redis_blocklist = <<>>
    /\ revoke_calls = <<>>
    /\ resets_made = 0
    /\ redis_up = TRUE
    /\ confirming = [w \in Workers |-> Idle]

\* ------------------------------------------------------------ request inputs
EmailInputs    == Emails \cup {None}
PasswordInputs == Passwords \cup {None}
UserIdInputs   == 1..MaxUsers

\* ------------------------------------------------------------ handlers
\* POST /auth/register
register_response(username, email, password) ==
    IF username = None \/ email = None \/ password = None
    THEN Resp(400, "Missing fields")
    ELSE IF Len(username) < MIN_USERNAME_LEN \/ Len(username) > MAX_USERNAME_LEN
    THEN Resp(400, "Username must be between 3 and 30 characters")
    ELSE IF ByEmail(email) # {}
    THEN Resp(400, "Email already registered")
    ELSE IF ByUsername(username) # {}
    THEN Resp(400, "Username already exists")
    ELSE Resp(201, "User registered successfully")

register(username, email, password) ==
    IF register_response(username, email, password).status # 201
    THEN UNCHANGED vars
    ELSE \E salt \in Salts :
         LET id == users_created + 1 IN
         /\ users_created < MaxUsers
         /\ users' = [u \in DOMAIN users \cup {id} |->
                        IF u = id
                        THEN User_setattr_password(
                                 [username |-> username, email |-> email,
                                  password_hash |-> NoHash,
                                  reset_token |-> NoResetToken],
                                 password, salt)
                        ELSE users[u]]
         /\ users_created' = id
         /\ UNCHANGED <<now, ticks, issued, minted_by, jwt_redis_blocklist,
                        revoke_calls, resets_made, redis_up, confirming>>

\* A slip: the access token of a login minted without fresh=True.
login_response_NotFresh(email, password) ==
    IF email = None \/ password = None
    THEN Resp(400, "Missing credentials")
    ELSE IF ByEmail(email) = {}
    THEN Resp(401, "Invalid email or password")
    ELSE IF \E u \in ByEmail(email) : verify_password_raises(users[u])
    THEN Resp(500, SERVER_ERROR)
    ELSE IF \A u \in ByEmail(email) : ~verify_password(users[u], password)
    THEN Resp(401, "Invalid email or password")
    ELSE LET user == CHOOSE u \in ByEmail(email) : TRUE IN
         [Resp(200, "Login successful") EXCEPT
             !.out = {create_access_token(user, FALSE, NextJti),
                      create_refresh_token(user, NextJti + 1)}]

\* A slip: an unknown email answered differently from a wrong password.
login_response_TellsApart(email, password) ==
    IF email = None \/ password = None
    THEN Resp(400, "Missing credentials")
    ELSE IF ByEmail(email) = {}
    THEN Resp(404, "User not found")
    ELSE IF \E u \in ByEmail(email) : verify_password_raises(users[u])
    THEN Resp(500, SERVER_ERROR)
    ELSE IF \A u \in ByEmail(email) : ~verify_password(users[u], password)
    THEN Resp(401, "Invalid email or password")
    ELSE LET user == CHOOSE u \in ByEmail(email) : TRUE IN
         [Resp(200, "Login successful") EXCEPT
             !.out = {create_access_token(user, TRUE, NextJti),
                      create_refresh_token(user, NextJti + 1)}]

\* POST /auth/login
login_response(email, password) ==
    IF email = None \/ password = None
    THEN Resp(400, "Missing credentials")
    ELSE IF ByEmail(email) = {}
    THEN Resp(401, "Invalid email or password")
    ELSE IF \E u \in ByEmail(email) : verify_password_raises(users[u])
    THEN Resp(500, SERVER_ERROR)
    ELSE IF \A u \in ByEmail(email) : ~verify_password(users[u], password)
    THEN Resp(401, "Invalid email or password")
    ELSE LET user == CHOOSE u \in ByEmail(email) : TRUE IN
         [Resp(200, "Login successful") EXCEPT
             !.out = {create_access_token(user, TRUE, NextJti),
                      create_refresh_token(user, NextJti + 1)}]

\* The history of which operation minted which token.
Minted(tokens, op) ==
    [j \in DOMAIN minted_by \cup {t.jti : t \in tokens} |->
        IF j \in DOMAIN minted_by THEN minted_by[j] ELSE op]

login(email, password) ==
    LET r == login_response(email, password) IN
    IF r.status # 200
    THEN UNCHANGED vars
    ELSE /\ Cardinality(issued) + 2 <= MaxTokens
         /\ issued' = issued \cup r.out
         /\ minted_by' = Minted(r.out, "login")
         /\ UNCHANGED <<now, ticks, users, users_created, jwt_redis_blocklist,
                        revoke_calls, resets_made, redis_up, confirming>>

\* A slip: the refreshed access token minted fresh.
refresh_token_response_Fresh(tok) ==
    LET v == jwt_required(tok, TRUE, FALSE) IN
    IF v.err # OK THEN Rejected(v)
    ELSE [Answer(v, 200, "") EXCEPT
             !.out = {create_access_token(tok.sub, TRUE, NextJti)}]

\* POST /auth/token/refresh, @jwt_required(refresh=True)
refresh_token_response(tok) ==
    LET v == jwt_required(tok, TRUE, FALSE) IN
    IF v.err # OK THEN Rejected(v)
    ELSE [Answer(v, 200, "") EXCEPT
             !.out = {create_access_token(tok.sub, FALSE, NextJti)}]

\* A slip: the refresh token rotated, the one presented being revoked once
\* it has been used.
refresh_token_Rotates(tok) ==
    LET r == refresh_token_response(tok) IN
    IF r.status # 200
    THEN UNCHANGED vars
    ELSE /\ Cardinality(issued) + 1 <= MaxTokens
         /\ issued' = issued \cup r.out
         /\ minted_by' = Minted(r.out, "refresh")
         /\ jwt_redis_blocklist' = revoke_token(tok.jti, tok.type)
         /\ UNCHANGED <<now, ticks, users, users_created,
                        revoke_calls, resets_made, redis_up, confirming>>

refresh_token(tok) ==
    LET r == refresh_token_response(tok) IN
    IF r.status # 200
    THEN UNCHANGED vars
    ELSE /\ Cardinality(issued) + 1 <= MaxTokens
         /\ issued' = issued \cup r.out
         /\ minted_by' = Minted(r.out, "refresh")
         /\ UNCHANGED <<now, ticks, users, users_created, jwt_redis_blocklist,
                        revoke_calls, resets_made, redis_up, confirming>>

\* user.password = value; user.save(), as test_user_model.py and the handlers
\* do it.
set_password(u, value) ==
    \E salt \in Salts :
        /\ users' = [users EXCEPT ![u] = User_setattr_password(users[u], value, salt)]
        /\ UNCHANGED <<now, ticks, users_created, issued, minted_by,
                       jwt_redis_blocklist, revoke_calls, resets_made, redis_up, confirming>>

\* The password_hash column of a row comes to hold something bcrypt cannot
\* read: the row is written by something other than User.__setattr__ (an
\* import, a migration, a manual UPDATE).
password_hash_damaged(u, password_hash) ==
    /\ WellFormed(users[u].password_hash)
    /\ users' = [users EXCEPT ![u].password_hash = password_hash]
    /\ UNCHANGED <<now, ticks, users_created, issued, minted_by,
                   jwt_redis_blocklist, revoke_calls, resets_made, redis_up, confirming>>

\* current_app.revoke_token(jti, token_type) as a handler calls it with the
\* claims of get_jwt(): the blocklist write and the history of the call.
Revoke(tok) ==
    /\ jwt_redis_blocklist' = revoke_token(tok.jti, tok.type)
    /\ revoke_calls' = [j \in DOMAIN revoke_calls \cup {tok.jti} |->
                          IF j = tok.jti
                          THEN [at |-> now, type |-> tok.type,
                                first |-> IF j \in DOMAIN revoke_calls
                                          THEN revoke_calls[j].first ELSE now]
                          ELSE revoke_calls[j]]

\* POST /auth/logout, @jwt_required()
logout_response(tok) ==
    LET v == jwt_required(tok, FALSE, FALSE) IN
    IF v.err # OK THEN Rejected(v)
    ELSE Answer(v, 200, "Successfully logged out")

logout(tok) ==
    IF logout_response(tok).status # 200
    THEN UNCHANGED vars
    ELSE /\ Revoke(tok)
         /\ UNCHANGED <<now, ticks, users, users_created, issued, minted_by,
                        resets_made, redis_up, confirming>>

\* GET /auth/verify-token, @jwt_required()
verify_token_response(tok) ==
    LET v == jwt_required(tok, FALSE, FALSE) IN
    IF v.err # OK THEN Rejected(v)
    ELSE IF tok.sub \notin DOMAIN users THEN Answer(v, 404, "User not found")
    ELSE Answer(v, 200, "valid")

verify_token(tok) ==
    /\ verify_token_response(tok).status \in {200, 401, 404, 500}
    /\ UNCHANGED vars

\* GET /auth/token-status, @jwt_required(): the claims of the token and
\* whether its jti is in the blocklist; the blocklist is read, not written.
token_status_response(tok) ==
    LET v == jwt_required(tok, FALSE, FALSE) IN
    IF v.err # OK THEN Rejected(v)
    ELSE Answer(v, 200, [user_id |-> tok.sub, token_type |-> tok.type,
                         fresh |-> tok.fresh, jti |-> tok.jti,
                         is_blacklisted |-> (RedisGet(tok.jti) # "nil"),
                         expires_at |-> tok.exp])

token_status(tok) ==
    /\ token_status_response(tok).status \in {200, 401, 500}
    /\ UNCHANGED vars

\* A slip: the route decorated with jwt_required() instead of
\* jwt_required(fresh=True).
change_password_response_AnyToken(tok, current_password, new_password, confirm_password) ==
    LET v == jwt_required(tok, FALSE, FALSE) IN
    IF v.err # OK THEN Rejected(v)
    ELSE IF tok.sub \notin DOMAIN users THEN Answer(v, 404, "User not found")
    ELSE IF current_password = None \/ new_password = None \/ confirm_password = None
    THEN Answer(v, 400, "All password fields are required")
    ELSE IF verify_password_raises(users[tok.sub])
    THEN Answer(v, 500, SERVER_ERROR)
    ELSE IF ~verify_password(users[tok.sub], current_password)
    THEN Answer(v, 400, "Current password is incorrect")
    ELSE IF new_password # confirm_password
    THEN Answer(v, 400, "New passwords do not match")
    ELSE IF Len(new_password) < MIN_PASSWORD_LEN
    THEN Answer(v, 400, "Password must be at least 6 characters long")
    ELSE Answer(v, 200, "Password changed successfully")

\* A slip: the current password not verified before the new one is set.
change_password_response_NoCurrentCheck(tok, current_password, new_password, confirm_password) ==
    LET v == jwt_required(tok, FALSE, TRUE) IN
    IF v.err # OK THEN Rejected(v)
    ELSE IF tok.sub \notin DOMAIN users THEN Answer(v, 404, "User not found")
    ELSE IF current_password = None \/ new_password = None \/ confirm_password = None
    THEN Answer(v, 400, "All password fields are required")
    ELSE IF new_password # confirm_password
    THEN Answer(v, 400, "New passwords do not match")
    ELSE IF Len(new_password) < MIN_PASSWORD_LEN
    THEN Answer(v, 400, "Password must be at least 6 characters long")
    ELSE Answer(v, 200, "Password changed successfully")

\* PUT /users/me/password, @jwt_required(fresh=True)
change_password_response(tok, current_password, new_password, confirm_password) ==
    LET v == jwt_required(tok, FALSE, TRUE) IN
    IF v.err # OK THEN Rejected(v)
    ELSE IF tok.sub \notin DOMAIN users THEN Answer(v, 404, "User not found")
    ELSE IF current_password = None \/ new_password = None \/ confirm_password = None
    THEN Answer(v, 400, "All password fields are required")
    ELSE IF verify_password_raises(users[tok.sub])
    THEN Answer(v, 500, SERVER_ERROR)
    ELSE IF ~verify_password(users[tok.sub], current_password)
    THEN Answer(v, 400, "Current password is incorrect")
    ELSE IF new_password # confirm_password
    THEN Answer(v, 400, "New passwords do not match")
    ELSE IF Len(new_password) < MIN_PASSWORD_LEN
    THEN Answer(v, 400, "Password must be at least 6 characters long")
    ELSE Answer(v, 200, "Password changed successfully")

\* A slip: the session signed out when its password is changed.
change_password_RevokesSession(tok, current_password, new_password, confirm_password) ==
    IF change_password_response(tok, current_password, new_password,
                                confirm_password).status # 200
    THEN UNCHANGED vars
    ELSE \E salt \in Salts :
         /\ users' = [users EXCEPT ![tok.sub] =
                         User_setattr_password(users[tok.sub], new_password, salt)]
         /\ Revoke(tok)
         /\ UNCHANGED <<now, ticks, users_created, issued, minted_by,
                        resets_made, redis_up, confirming>>

change_password(tok, current_password, new_password, confirm_password) ==
    IF change_password_response(tok, current_password, new_password,
                                confirm_password).status # 200
    THEN UNCHANGED vars
    ELSE \E salt \in Salts :
         /\ users' = [users EXCEPT ![tok.sub] =
                         User_setattr_password(users[tok.sub], new_password, salt)]
         /\ UNCHANGED <<now, ticks, users_created, issued, minted_by,
                        jwt_redis_blocklist, revoke_calls, resets_made, redis_up, confirming>>

\* A slip: the subject of the token not compared with the target id.
delete_user_response_NoOwnerCheck(tok, user_id) ==
    LET v == jwt_required(tok, FALSE, TRUE) IN
    IF v.err # OK THEN Rejected(v)
    ELSE IF user_id \notin DOMAIN users THEN Answer(v, 404, "User not found")
    ELSE Answer(v, 200, "User deleted successfully")

\* DELETE /users/<user_id>, @jwt_required(fresh=True)
delete_user_response(tok, user_id) ==
    LET v == jwt_required(tok, FALSE, TRUE) IN
    IF v.err # OK THEN Rejected(v)
    ELSE IF tok.sub # user_id THEN Answer(v, 403, "Unauthorized to delete this user")
    ELSE IF user_id \notin DOMAIN users THEN Answer(v, 404, "User not found")
    ELSE Answer(v, 200, "User deleted successfully")

delete_user(tok, user_id) ==
    IF delete_user_response(tok, user_id).status # 200
    THEN UNCHANGED vars
    ELSE /\ Revoke(tok)
         /\ users' = [u \in DOMAIN users \ {user_id} |-> users[u]]
         /\ UNCHANGED <<now, ticks, users_created, issued, minted_by,
                        resets_made, redis_up, confirming>>

\* POST /auth/reset-password
request_password_reset_response(email) ==
    IF email = None THEN Resp(400, "Email is required")
    ELSE IF ByEmail(email) = {} THEN Resp(404, "User not found")
    ELSE [Resp(200, "Password reset token generated") EXCEPT
             !.reset_token = resets_made + 1]       \* str(uuid.uuid4())

request_password_reset(email) ==
    LET r == request_password_reset_response(email) IN
    IF r.status # 200
    THEN UNCHANGED vars
    ELSE \E u \in ByEmail(email) :
         /\ resets_made < MaxResets
         /\ resets_made' = r.reset_token
         /\ users' = [users EXCEPT ![u].reset_token = r.reset_token]
         /\ UNCHANGED <<now, ticks, users_created, issued, minted_by,
                        jwt_redis_blocklist, revoke_calls, redis_up, confirming>>

\* A slip: the token field not tested for presence; filter_by(reset_token=None)
\* then selects the rows whose reset_token IS NULL.
reset_password_with_token_response_NoTokenCheck(token, new_password, confirm_password) ==
    IF new_password = None \/ confirm_password = None
    THEN Resp(400, "Missing fields")
    ELSE IF new_password # confirm_password
    THEN Resp(400, "Passwords do not match")
    ELSE IF Len(new_password) < MIN_PASSWORD_LEN
    THEN Resp(400, "Password must be at least 6 characters long")
    ELSE IF ByResetToken(token) = {}
    THEN Resp(400, "Invalid or expired token")
    ELSE Resp(200, "Password reset successfully")

\* POST /auth/reset-password/confirm
reset_password_with_token_response(token, new_password, confirm_password) ==
    IF token = NoResetToken \/ new_password = None \/ confirm_password = None
    THEN Resp(400, "Missing fields")
    ELSE IF new_password # confirm_password
    THEN Resp(400, "Passwords do not match")
    ELSE IF Len(new_password) < MIN_PASSWORD_LEN
    THEN Resp(400, "Password must be at least 6 characters long")
    ELSE IF ByResetToken(token) = {}
    THEN Resp(400, "Invalid or expired token")
    ELSE Resp(200, "Password reset successfully")

\* A slip: the token left on the row after the password is set.
reset_password_with_token_KeepsToken(token, new_password, confirm_password) ==
    IF reset_password_with_token_response(token, new_password,
                                          confirm_password).status # 200
    THEN UNCHANGED vars
    ELSE \E u \in ByResetToken(token), salt \in Salts :
         /\ users' = [users EXCEPT
                         ![u] = User_setattr_password(users[u], new_password, salt)]
         /\ UNCHANGED <<now, ticks, users_created, issued, minted_by,
                        jwt_redis_blocklist, revoke_calls, resets_made, redis_up, confirming>>

\* A slip: the row looked up and its token cleared before the request is
\* validated, so that a turned-away attempt uses the token up.
reset_password_with_token_ConsumesOnFailure(token, new_password, confirm_password) ==
    IF reset_password_with_token_response(token, new_password,
                                          confirm_password).status # 200
    THEN IF token # NoResetToken /\ ByResetToken(token) # {}
         THEN \E u \in ByResetToken(token) :
              /\ users' = [users EXCEPT ![u].reset_token = NoResetToken]
              /\ UNCHANGED <<now, ticks, users_created, issued, minted_by,
                             jwt_redis_blocklist, revoke_calls, resets_made, redis_up, confirming>>
         ELSE UNCHANGED vars
    ELSE \E u \in ByResetToken(token), salt \in Salts :
         /\ users' = [users EXCEPT
                         ![u] = [User_setattr_password(users[u], new_password, salt)
                                    EXCEPT !.reset_token = NoResetToken]]
         /\ UNCHANGED <<now, ticks, users_created, issued, minted_by,
                        jwt_redis_blocklist, revoke_calls, resets_made, redis_up, confirming>>

reset_password_with_token(token, new_password, confirm_password) ==
    IF reset_password_with_token_response(token, new_password,
                                          confirm_password).status # 200
    THEN UNCHANGED vars
    ELSE \E u \in ByResetToken(token), salt \in Salts :
         /\ users' = [users EXCEPT
                         ![u] = [User_setattr_password(users[u], new_password, salt)
                                    EXCEPT !.reset_token = NoResetToken]]
         /\ UNCHANGED <<now, ticks, users_created, issued, minted_by,
                        jwt_redis_blocklist, revoke_calls, resets_made, redis_up, confirming>>

\* ------------------------------------------------------------ concurrent confirms
\* reset_password_with_token as a worker runs it next to other workers, in
\* the two steps other requests can come between.  Each worker has its own
\* database session (scoped_session), and the handler takes no lock.
\* First the fields are validated and the row is read by its token:
\* storage.filter_by(User, reset_token=token).
confirm_lookup(w, token, new_password, confirm_password) ==
    LET r == reset_password_with_token_response(token, new_password, confirm_password) IN
    /\ confirming[w].pc = "idle"
    /\ IF r.status # 200
       THEN confirming' = [confirming EXCEPT ![w] =
                [Idle EXCEPT !.pc = "done", !.token = token,
                             !.status = r.status, !.body = r.body]]
       ELSE \E u \in ByResetToken(token) :
            confirming' = [confirming EXCEPT ![w] =
                [Idle EXCEPT !.pc = "found", !.token = token,
                             !.new_password = new_password, !.user = u]]
    /\ UNCHANGED <<now, ticks, users, users_created, issued, minted_by,
                   jwt_redis_blocklist, revoke_calls, resets_made, redis_up>>

\* Then the row the worker holds is written and committed: user.password =
\* new_password; user.reset_token = None; storage.save().  The UPDATE goes by
\* the primary key and asks nothing about the token the row now has.
confirm_save(w) ==
    LET c == confirming[w] IN
    /\ c.pc = "found"
    /\ \E salt \in Salts :
          users' = [users EXCEPT
                       ![c.user] = [User_setattr_password(users[c.user], c.new_password, salt)
                                       EXCEPT !.reset_token = NoResetToken]]
    /\ confirming' = [confirming EXCEPT ![w] =
                         [c EXCEPT !.pc = "done", !.status = 200,
                                   !.body = "Password reset successfully"]]
    /\ UNCHANGED <<now, ticks, users_created, issued, minted_by,
                   jwt_redis_blocklist, revoke_calls, resets_made, redis_up>>

\* The clock advances between requests.
Tick ==
    /\ ticks < MaxTicks
    /\ \E d \in Deltas : now' = now + d
    /\ ticks' = ticks + 1
    /\ UNCHANGED <<users, users_created, issued, minted_by, jwt_redis_blocklist,
                   revoke_calls, resets_made, redis_up, confirming>>

\* app.revoke_token called for a token by a caller other than a request the
\* model runs to its end: a second request that verified the same token
\* before the first one's SET, or code using the helper app.py exports.  The
\* model follows an id up to its second call at a later time.
revoke_token_call(tok) ==
    /\ redis_up
    /\ tok.jti \in DOMAIN revoke_calls =>
          revoke_calls[tok.jti].first = revoke_calls[tok.jti].at
    /\ Revoke(tok)
    /\ UNCHANGED <<now, ticks, users, users_created, issued, minted_by,
                   resets_made, redis_up, confirming>>

\* ------------------------------------------------------------ Redis outages
\* The blocklist Redis stops answering, or answers again: from then on
\* jwt_redis_blocklist.get / .set raise redis.ConnectionError.  The keys it
\* holds are kept.
RedisFails ==
    /\ redis_up
    /\ redis_up' = FALSE
    /\ UNCHANGED <<now, ticks, users, users_created, issued, minted_by,
                   jwt_redis_blocklist, revoke_calls, resets_made, confirming>>

RedisRecovers ==
    /\ ~redis_up
    /\ redis_up' = TRUE
    /\ UNCHANGED <<now, ticks, users, users_created, issued, minted_by,
                   jwt_redis_blocklist, revoke_calls, resets_made, confirming>>

\* GET /health: the ping inside try/except; the answer is 200 "healthy" on
\* both paths, with the outcome of the ping in redis_blacklist.
health_check_response ==
    LET cache_status == IF redis_up THEN "connected" ELSE "error" IN
    Resp(200, [status |-> "healthy", redis_blacklist |-> cache_status,
               version |-> "1.0.0"])

health_check ==
    /\ health_check_response.status = 200
    /\ UNCHANGED vars

\* logout when Redis stops answering after the decorator's lookup: the SET
\* of revoke_token raises, nothing catches it and the request ends in 500.
logout_redis_lost_response(tok) ==
    IF logout_response(tok).status # 200 THEN logout_response(tok)
    ELSE [Resp(500, SERVER_ERROR) EXCEPT !.lookups = 1]

logout_redis_lost(tok) ==
    /\ redis_up
    /\ logout_response(tok).status = 200
    /\ redis_up' = FALSE
    /\ UNCHANGED <<now, ticks, users, users_created, issued, minted_by,
                   jwt_redis_blocklist, revoke_calls, resets_made, confirming>>

\* A slip: the row deleted before the token is revoked; the SET then raises
\* with the row already gone.
delete_user_redis_lost_DeleteFirst(tok, user_id) ==
    /\ redis_up
    /\ delete_user_response(tok, user_id).status = 200
    /\ redis_up' = FALSE
    /\ users' = [u \in DOMAIN users \ {user_id} |-> users[u]]
    /\ UNCHANGED <<now, ticks, users_created, issued, minted_by,
                   jwt_redis_blocklist, revoke_calls, resets_made, confirming>>

\* delete_user when Redis stops answering after the decorator's lookup:
\* revoke_token raises before storage.delete is reached.
delete_user_redis_lost(tok, user_id) ==
    /\ redis_up
    /\ delete_user_response(tok, user_id).status = 200
    /\ redis_up' = FALSE
    /\ UNCHANGED <<now, ticks, users, users_created, issued, minted_by,
                   jwt_redis_blocklist, revoke_calls, resets_made, confirming>>

\* ------------------------------------------------------------ specifications
\* The registered users the session-token machine starts with.
InitSession ==
    /\ now = 0
    /\ ticks = 0
    /\ users = [u \in 1..2 |->
                  IF u = 1
                  THEN [username |-> "alice", email |-> "a@x.com",
                        password_hash |-> hashpw("secret1", 1),
                        reset_token |-> NoResetToken]
                  ELSE [username |-> "bob", email |-> "b@x.com",
                        password_hash |-> hashpw("hunter22", 1),
                        reset_token |-> NoResetToken]]
    /\ users_created = 2
    /\ issued = {}
    /\ minted_by = <<>>
    /\ jwt_redis_blocklist = <<>>
    /\ revoke_calls = <<>>
    /\ resets_made = 0
    /\ redis_up = TRUE
    /\ confirming = [w \in Workers |-> Idle]

Login == \E email \in EmailInputs, password \in PasswordInputs : login(email, password)
RefreshToken == \E tok \in Presentable : refresh_token(tok)
Logout == \E tok \in Presentable : logout(tok)
VerifyToken == \E tok \in Presentable : verify_token(tok)
\* A request the decorator turns away never reads its body: one body stands
\* for all of them.
ChangePassword ==
    \E tok \in Presentable :
        IF jwt_required(tok, FALSE, TRUE).err # OK
        THEN change_password(tok, None, None, None)
        ELSE \E current_password \in PasswordInputs, new_password \in PasswordInputs,
                confirm_password \in PasswordInputs :
                change_password(tok, current_password, new_password, confirm_password)
DeleteUser == \E tok \in Presentable, user_id \in UserIdInputs : delete_user(tok, user_id)
Register ==
    \E username \in Usernames \cup {None}, email \in EmailInputs,
       password \in PasswordInputs : register(username, email, password)
RequestPasswordReset == \E email \in EmailInputs : request_password_reset(email)
ResetPasswordWithToken ==
    \E token \in 0..MaxResets, new_password \in PasswordInputs,
       confirm_password \in PasswordInputs :
        reset_password_with_token(token, new_password, confirm_password)

\* The session-token machine: every token-bearing request and the clock.
NextSession ==
    \/ Login
    \/ RefreshToken
    \/ Logout
    \/ VerifyToken
    \/ ChangePassword
    \/ DeleteUser
    \/ Tick

SpecSession == InitSession /\ [][NextSession]_vars

\* The reset flow: registration, login and the two reset requests.
NextReset ==
    \/ Register
    \/ Login
    \/ RequestPasswordReset
    \/ ResetPasswordWithToken

SpecReset == Init /\ [][NextReset]_vars

\* The session-token machine with a blocklist Redis that may stop answering
\* at any moment, between two requests or in the middle of one.
LogoutRedisLost == \E tok \in Presentable : logout_redis_lost(tok)
DeleteUserRedisLost ==
    \E tok \in Presentable, user_id \in UserIdInputs : delete_user_redis_lost(tok, user_id)

NextOutage ==
    \/ Login
    \/ RefreshToken
    \/ Logout
    \/ VerifyToken
    \/ ChangePassword
    \/ DeleteUser
    \/ Tick
    \/ RedisFails
    \/ RedisRecovers
    \/ LogoutRedisLost
    \/ DeleteUserRedisLost

SpecOutage == InitSession /\ [][NextOutage]_vars

\* The Revocation Store on its own.  alice has just logged in; revoke_token
\* is called on her tokens, by logout and by other callers, and the clock
\* advances.
InitRevoke ==
    /\ now = 0
    /\ ticks = 0
    /\ users = [u \in 1..2 |->
                  IF u = 1
                  THEN [username |-> "alice", email |-> "a@x.com",
                        password_hash |-> hashpw("secret1", 1),
                        reset_token |-> NoResetToken]
                  ELSE [username |-> "bob", email |-> "b@x.com",
                        password_hash |-> hashpw("hunter22", 1),
                        reset_token |-> NoResetToken]]
    /\ users_created = 2
    /\ issued = {create_access_token(1, TRUE, 1), create_refresh_token(1, 2)}
    /\ minted_by = [j \in 1..2 |-> "login"]
    /\ jwt_redis_blocklist = <<>>
    /\ revoke_calls = <<>>
    /\ resets_made = 0
    /\ redis_up = TRUE
    /\ confirming = [w \in Workers |-> Idle]

RevokeTokenCall == \E tok \in issued : revoke_token_call(tok)

NextRevoke ==
    \/ Logout
    \/ RevokeTokenCall
    \/ Tick

SpecRevoke == InitRevoke /\ [][NextRevoke]_vars

\* The User model on its own: passwords are assigned to the records, directly
\* and by the reset flow.
SetPassword == \E u \in DOMAIN users, value \in PasswordValues : set_password(u, value)

NextPassword ==
    \/ SetPassword
    \/ RequestPasswordReset
    \/ ResetPasswordWithToken

SpecPassword == InitSession /\ [][NextPassword]_vars

\* Login and the reset flow over a users table whose password_hash column
\* may hold bad data.
PasswordHashDamaged ==
    \E u \in DOMAIN users, password_hash \in {MalformedHash, NoHash} :
        password_hash_damaged(u, password_hash)

NextStoredData ==
    \/ Login
    \/ RequestPasswordReset
    \/ ResetPasswordWithToken
    \/ PasswordHashDamaged

SpecStoredData == InitSession /\ [][NextStoredData]_vars

\* Account deletion.  alice is logged in on two devices; accounts are
\* deleted while the blocklist Redis may stop answering, between two requests
\* or in the middle of one.
InitDelete ==
    /\ now = 0
    /\ ticks = 0
    /\ users = [u \in 1..2 |->
                  IF u = 1
                  THEN [username |-> "alice", email |-> "a@x.com",
                        password_hash |-> hashpw("secret1", 1),
                        reset_token |-> NoResetToken]
                  ELSE [username |-> "bob", email |-> "b@x.com",
                        password_hash |-> hashpw("hunter22", 1),
                        reset_token |-> NoResetToken]]
    /\ users_created = 2
    /\ issued = {create_access_token(1, TRUE, 1), create_refresh_token(1, 2),
                 create_access_token(1, TRUE, 3), create_refresh_token(1, 4)}
    /\ minted_by = [j \in 1..4 |-> "login"]
    /\ jwt_redis_blocklist = <<>>
    /\ revoke_calls = <<>>
    /\ resets_made = 0
    /\ redis_up = TRUE
    /\ confirming = [w \in Workers |-> Idle]

NextDelete ==
    \/ DeleteUser
    \/ DeleteUserRedisLost
    \/ Logout
    \/ RedisFails
    \/ RedisRecovers
    \/ Tick

SpecDelete == InitDelete /\ [][NextDelete]_vars

\* The reset flow with confirmations handled side by side.
ConfirmLookup ==
    \E w \in Workers, token \in 0..MaxResets, new_password \in PasswordInputs,
       confirm_password \in PasswordInputs :
        confirm_lookup(w, token, new_password, confirm_password)
ConfirmSave == \E w \in Workers : confirm_save(w)

NextConcurrentReset ==
    \/ RequestPasswordReset
    \/ ConfirmLookup
    \/ ConfirmSave

SpecConcurrentReset == InitSession /\ [][NextConcurrentReset]_vars

\* Every request that carries a token or changes a password, at one moment
\* of the clock: what each of them does to the Revocation Store.
TokenStatus == \E tok \in Presentable : token_status(tok)

NextStore ==
    \/ Login
    \/ RefreshToken
    \/ Logout
    \/ VerifyToken
    \/ TokenStatus
    \/ ChangePassword
    \/ DeleteUser
    \/ RequestPasswordReset
    \/ ResetPasswordWithToken

SpecStore == InitSession /\ [][NextStore]_vars

\* The health check next to the session-token machine it watches over, with
\* a blocklist Redis that may stop answering.
NextHealth ==
    \/ health_check
    \/ NextOutage

SpecHealth == InitSession /\ [][NextHealth]_vars

\* The whole machine from the empty stores.
Next == NextSession \/ NextReset \/ NextOutage \/ NextRevoke \/ NextPassword
        \/ NextStoredData \/ NextDelete \/ NextConcurrentReset \/ NextStore
        \/ NextHealth

Spec == Init /\ [][Next]_vars

\* ====================================================================
\* Properties
\* ====================================================================
\* The lifetime the specification gives a token type (section 3).
NominalLifetime(type) == IF type = "refresh" THEN 2592000 ELSE 3600

\* revoke_token has been called for the token and, by the TTL of that call,
\* the entry has not yet expired.
RevokedLive(tok) ==
    /\ tok.jti \in DOMAIN revoke_calls
    /\ now < revoke_calls[tok.jti].at + NominalLifetime(revoke_calls[tok.jti].type)

\* The token is of the type and freshness an endpoint asks for.
Fits(tok, refresh, fresh) ==
    /\ refresh = (tok.type = "refresh")
    /\ fresh => tok.fresh

\* The three ways the routes use the decorator: jwt_required(),
\* jwt_required(refresh=True), jwt_required(fresh=True).
Endpoints == {<<FALSE, FALSE>>, <<TRUE, FALSE>>, <<FALSE, TRUE>>}

\* C1, as stated: while the entry of a revoked token has not expired, every
\* verification of the token on a plain jwt_required() route answers
\* "Token has been revoked".
C1_RevokedAnswerUntilTtl ==
    \A tok \in issued :
        RevokedLive(tok) =>
            /\ verify_token_response(tok).body = REVOKED
            /\ logout_response(tok).body = REVOKED

\* C1, amended: while the entry of a revoked token has not expired, every
\* route turns the token away with 401; the answer is "Token has been
\* revoked" whenever the token is unexpired and of the type and freshness the
\* route requires, and otherwise that of the earlier check that fails.
C1_RevokedStaysRejected ==
    \A tok \in issued :
        RevokedLive(tok) =>
            /\ \A e \in Endpoints :
                  LET v == jwt_required(tok, e[1], e[2]) IN
                  /\ v.err \in {REVOKED, EXPIRED, INVALID, NEEDS_FRESH}
                  /\ (v.err = REVOKED) <=> (now < tok.exp /\ Fits(tok, e[1], e[2]))
            /\ verify_token_response(tok).status = 401
            /\ logout_response(tok).status = 401
            /\ refresh_token_response(tok).status = 401
            /\ \A id \in UserIdInputs : delete_user_response(tok, id).status = 401
            /\ \A c \in PasswordInputs, n \in PasswordInputs :
                  change_password_response(tok, c, n, n).status = 401

\* A token revoked some time ago, still unexpired, is answered as revoked.
C1_Witness ==
    \E tok \in issued :
        /\ RevokedLive(tok)
        /\ revoke_calls[tok.jti].at < now
        /\ now < tok.exp
        /\ verify_token_response(tok).body = REVOKED

\* C2: a revoked token is never accepted again: at every later time its
\* entry is still in the store or the token has expired, because the entry
\* outlasts the token.
C2_RevokedNeverAccepted ==
    \A tok \in issued :
        tok.jti \in DOMAIN revoke_calls =>
            /\ check_if_token_revoked(tok) \/ tok.exp <= now
            /\ tok.exp <= jwt_redis_blocklist[tok.jti]
            /\ \A e \in Endpoints : jwt_required(tok, e[1], e[2]).err # OK
            /\ verify_token_response(tok).status = 401
            /\ logout_response(tok).status = 401

\* The entry of a revoked token has gone and the token is turned away as
\* expired.
C2_Witness ==
    \E tok \in issued :
        /\ tok.jti \in DOMAIN revoke_calls
        /\ ~check_if_token_revoked(tok)
        /\ verify_token_response(tok).body = EXPIRED

\* What login answers for a user's email and matching password: one fresh
\* access token and one non-fresh refresh token, both new and for that user.
C3_LoginAnswer ==
    \A email \in Emails, password \in Passwords :
        \A u \in ByEmail(email) :
            verify_password(users[u], password) =>
                LET r == login_response(email, password)
                    access  == {t \in r.out : t.type = "access"}
                    refresh == {t \in r.out : t.type = "refresh"}
                IN  /\ r.status = 200
                    /\ Cardinality(r.out) = 2
                    /\ Cardinality(access) = 1
                    /\ Cardinality(refresh) = 1
                    /\ \A t \in access : t.fresh /\ t.sub = u
                    /\ \A t \in refresh : ~t.fresh /\ t.sub = u
                    /\ \A t \in r.out : \A i \in issued : t.jti # i.jti

\* A successful login hands out exactly the pair it answers with, and right
\* after it the access token passes a plain protected call and the refresh
\* token passes the refresh call.
C3_LoginStep ==
    \A email \in Emails, password \in Passwords :
        login(email, password) =>
            LET r == login_response(email, password) IN
            /\ r.status = 200
            /\ issued' = issued \cup r.out
            /\ \A t \in r.out :
                  IF t.type = "access"
                  THEN (verify_token_response(t).status = 200)'
                  ELSE (refresh_token_response(t).status = 200)'

\* C3: for every registered user and the matching password, login issues
\* exactly one access token with fresh=true and one refresh token with
\* fresh=false, both with the user's id as subject, and both pass
\* verification immediately after issuance.
C3_LoginIssuesVerifiedPair == []C3_LoginAnswer /\ [][C3_LoginStep]_vars

\* A login has just handed out its pair, and both tokens verify.
C3_Witness ==
    \E a \in issued, r \in issued :
        /\ a.type = "access" /\ r.type = "refresh"
        /\ a.jti + 1 = r.jti /\ a.iat = now /\ r.iat = now
        /\ minted_by[a.jti] = "login" /\ minted_by[r.jti] = "login"
        /\ a.fresh /\ ~r.fresh /\ a.sub = r.sub
        /\ verify_token_response(a).status = 200
        /\ refresh_token_response(r).status = 200

\* A token a refresh minted.
Refreshed(tok) == tok \in issued /\ minted_by[tok.jti] = "refresh"

\* A refreshed token passes plain verification while it is unexpired and not
\* revoked, and the operations that require a fresh token turn it away.
C4_StaleAnswers ==
    \A tok \in issued :
        Refreshed(tok) =>
            /\ (now < tok.exp /\ tok.jti \notin DOMAIN revoke_calls) =>
                  /\ jwt_required(tok, FALSE, FALSE).err = OK
                  /\ verify_token_response(tok).status \in {200, 404}
                  /\ \A c \in PasswordInputs, n \in PasswordInputs :
                        change_password_response(tok, c, n, n).body = NEEDS_FRESH
                  /\ \A id \in UserIdInputs :
                        delete_user_response(tok, id).body = NEEDS_FRESH
            /\ \A c \in PasswordInputs, n \in PasswordInputs, m \in PasswordInputs :
                  change_password_response(tok, c, n, m).status = 401
            /\ \A id \in UserIdInputs : delete_user_response(tok, id).status = 401

\* No change of the stores is the work of changePassword or deleteAccount
\* carrying a refreshed token.
C4_StaleChangesNothing ==
    \A tok \in issued :
        Refreshed(tok) =>
            /\ \A c \in PasswordInputs, n \in PasswordInputs, m \in PasswordInputs :
                  ~change_password(tok, c, n, m)
            /\ \A id \in UserIdInputs : ~delete_user(tok, id)

\* C4: freshness gating: an access token obtained via refresh passes plain
\* verification but is rejected by changePassword and deleteAccount, which
\* then change no state.
C4_FreshnessGating == []C4_StaleAnswers /\ [][C4_StaleChangesNothing]_vars

\* A refreshed token passes verify-token and is refused a password change.
C4_Witness ==
    \E tok \in issued :
        /\ Refreshed(tok)
        /\ verify_token_response(tok).status = 200
        /\ change_password_response(tok, "secret1", "hunter22", "hunter22").body
               = NEEDS_FRESH
        /\ delete_user_response(tok, tok.sub).body = NEEDS_FRESH

\* C5: freshness never upgrades: every token with fresh=true was minted by a
\* login, as an access token, and only such a token passes a route that
\* requires freshness.
C5_FreshOnlyFromLogin ==
    /\ \A tok \in issued :
          tok.fresh => minted_by[tok.jti] = "login" /\ tok.type = "access"
    /\ \A tok \in Presentable :
          jwt_required(tok, FALSE, TRUE).err = OK =>
              tok \in issued /\ minted_by[tok.jti] = "login"

\* Tokens have been refreshed and revoked, and a refreshed token is there.
C5_Witness ==
    /\ \E tok \in issued : Refreshed(tok) /\ ~tok.fresh
    /\ \E tok \in issued : tok.fresh /\ tok.jti \in DOMAIN revoke_calls

\* The passwords the reset policy takes.
PolicyPasswords == {p \in Passwords : Len(p) >= 6}
ResetTokenInputs == 0..MaxResets
INVALID_OR_EXPIRED == "Invalid or expired token"

\* requestReset for a registered email answers with a new token, and
\* confirmReset with a user's token and a policy-compliant password succeeds.
C6_ResetAnswers ==
    /\ \A email \in Emails :
          ByEmail(email) # {} =>
              LET r == request_password_reset_response(email) IN
              /\ r.status = 200
              /\ r.reset_token # NoResetToken
              /\ ByResetToken(r.reset_token) = {}
    /\ \A u \in DOMAIN users :
          users[u].reset_token # NoResetToken =>
              \A p \in PolicyPasswords :
                  reset_password_with_token_response(users[u].reset_token, p, p).status
                      = 200

\* The steps of the round trip: the token requestReset answers with is the
\* one confirmReset then takes; a confirmReset that succeeds leaves the user
\* with the new password and no other, and the token consumed; and no change
\* of the stores is the work of a confirmReset with a token no user holds.
C6_ResetSteps ==
    /\ \A email \in Emails :
          request_password_reset(email) =>
              LET r == request_password_reset_response(email) IN
              /\ \A u \in ByEmail(email) : users'[u].reset_token = r.reset_token
              /\ \A new \in {r.reset_token}, p \in PolicyPasswords :
                    (reset_password_with_token_response(new, p, p).status = 200)'
    /\ \A token \in ResetTokenInputs, p \in PolicyPasswords :
          reset_password_with_token(token, p, p) =>
              /\ \A u \in ByResetToken(token) :
                    /\ verify_password(users'[u], p)
                    /\ \A q \in Passwords \ {p} : ~verify_password(users'[u], q)
                    /\ users'[u].reset_token = NoResetToken
              /\ \A n \in PasswordInputs, c \in PasswordInputs :
                    (reset_password_with_token_response(token, n, c).status = 400)'
              /\ \A n \in PolicyPasswords :
                    (reset_password_with_token_response(token, n, n).body
                        = INVALID_OR_EXPIRED)'
    /\ \A token \in ResetTokenInputs, n \in PasswordInputs, c \in PasswordInputs :
          ByResetToken(token) = {} => ~reset_password_with_token(token, n, c)

\* C6: reset round trip and single use: requestReset for a registered email
\* followed by confirmReset(token, p, p) with a policy-compliant p succeeds;
\* afterwards p verifies and the old password does not; a second confirmReset
\* with the consumed token fails as invalid-or-expired and changes nothing.
C6_ResetRoundTrip == []C6_ResetAnswers /\ [][C6_ResetSteps]_vars

\* The one reset token made has been consumed: no user holds it and a second
\* confirmReset with it is answered invalid-or-expired.
C6_Witness ==
    /\ resets_made = 1
    /\ DOMAIN users # {}
    /\ \A u \in DOMAIN users : users[u].reset_token = NoResetToken
    /\ reset_password_with_token_response(1, "secret1", "secret1").body
           = INVALID_OR_EXPIRED

\* No two users hold the same reset token, a token value matches at most one
\* user, and no request is answered as a success unless its token is a
\* user's current, non-null token.
C7_OneTokenAnswers ==
    /\ \A u \in DOMAIN users, w \in DOMAIN users :
          (u # w /\ users[u].reset_token # NoResetToken) =>
              users[u].reset_token # users[w].reset_token
    /\ \A token \in ResetTokenInputs :
          /\ token # NoResetToken => Cardinality(ByResetToken(token)) <= 1
          /\ \A n \in PasswordInputs, c \in PasswordInputs :
                reset_password_with_token_response(token, n, c).status = 200 =>
                    /\ token # NoResetToken
                    /\ \E u \in DOMAIN users : users[u].reset_token = token

\* A requestReset overwrites: afterwards only the new token matches the user
\* and the earlier one is answered invalid-or-expired; a confirmReset changes
\* only the user who holds the supplied, non-null token.
C7_OneTokenSteps ==
    /\ \A email \in Emails :
          request_password_reset(email) =>
              LET r == request_password_reset_response(email) IN
              \A u \in ByEmail(email) : \A old \in {users[u].reset_token} :
                  /\ \A token \in ResetTokenInputs :
                        (u \in ByResetToken(token))' <=> token = r.reset_token
                  /\ old # NoResetToken =>
                        \A p \in PolicyPasswords :
                            (reset_password_with_token_response(old, p, p).body
                                = INVALID_OR_EXPIRED)'
    /\ \A token \in ResetTokenInputs, n \in PasswordInputs, c \in PasswordInputs :
          reset_password_with_token(token, n, c) =>
              /\ token # NoResetToken
              /\ \A u \in DOMAIN users :
                    users[u].reset_token # token => users'[u] = users[u]

\* C7: at most one reset token is active per user: a second requestReset
\* overwrites the earlier token, so confirmReset with the earlier token fails
\* and only the latest can reset the password; a user whose reset token is
\* null is matched by no supplied token value.
C7_OneActiveResetToken == []C7_OneTokenAnswers /\ [][C7_OneTokenSteps]_vars

\* The only user, whose password was never reset, holds the second token made
\* for them; the first matches nobody.
C7_Witness ==
    /\ users_created = 1
    /\ resets_made = 2
    /\ \E u \in DOMAIN users :
          /\ users[u].reset_token = 2
          /\ verify_password(users[u], "abc")
    /\ ByResetToken(1) = {}
    /\ reset_password_with_token_response(1, "secret1", "secret1").body
           = INVALID_OR_EXPIRED

\* C8, as stated: logout accepts a currently valid token of either type,
\* access or refresh.
C8_LogoutTakesEitherType ==
    \A tok \in issued :
        (now < tok.exp /\ tok.jti \notin DOMAIN revoke_calls) =>
            logout_response(tok).status = 200

\* C9, as stated: the entry is stored with the token's remaining lifetime at
\* revocation time as TTL, so it is gone by the token's own expiry.
C9_TtlIsRemainingLifetime ==
    \A tok \in issued :
        tok.jti \in DOMAIN jwt_redis_blocklist =>
            /\ jwt_redis_blocklist[tok.jti] - revoke_calls[tok.jti].at
                   = tok.exp - revoke_calls[tok.jti].at
            /\ jwt_redis_blocklist[tok.jti] <= tok.exp

\* C9, amended: the entry is stored with the nominal lifetime of the token's
\* type as TTL, so it expires as long after the token's own expiry as the
\* token was old when it was revoked, and never before it.
C9_TtlIsNominalLifetime ==
    /\ DOMAIN jwt_redis_blocklist = DOMAIN revoke_calls
    /\ \A tok \in issued :
          tok.jti \in DOMAIN jwt_redis_blocklist =>
              LET at == revoke_calls[tok.jti].at IN
              /\ jwt_redis_blocklist[tok.jti] - at = NominalLifetime(tok.type)
              /\ jwt_redis_blocklist[tok.jti] - tok.exp = at - tok.iat
              /\ jwt_redis_blocklist[tok.jti] >= tok.exp

\* The entry of a token revoked after its issue second is still in the store
\* when the token has expired.
C9_Witness ==
    \E tok \in issued :
        /\ tok.jti \in DOMAIN jwt_redis_blocklist
        /\ tok.iat < revoke_calls[tok.jti].at
        /\ tok.exp <= now
        /\ check_if_token_revoked(tok)

\* The outcome of the checks in the order signature, expiry, required type,
\* required freshness, revocation: the first that fails decides, and only
\* the last asks the store.  A signature verifies exactly for a token the
\* server minted, and a token is revoked by a revoke_token call whose TTL has
\* not run out.
C10_FirstFailure(tok, refresh, fresh) ==
    IF tok \notin issued THEN [err |-> INVALID, lookups |-> 0]
    ELSE IF ~(now < tok.exp) THEN [err |-> EXPIRED, lookups |-> 0]
    ELSE IF refresh # (tok.type = "refresh") THEN [err |-> INVALID, lookups |-> 0]
    ELSE IF fresh /\ ~tok.fresh THEN [err |-> NEEDS_FRESH, lookups |-> 0]
    ELSE IF RevokedLive(tok) THEN [err |-> REVOKED, lookups |-> 1]
    ELSE [err |-> OK, lookups |-> 1]

\* What a route answers when the checks fail with outcome x.
C10_Turned(r, x) == r.status = 401 /\ r.body = x.err /\ r.lookups = x.lookups

\* C10: verification runs signature, expiry, required type, required
\* freshness, revocation lookup in that order and stops at the first failure
\* with that step's reason: a token failing signature or expiry is rejected
\* without a store lookup, and a token both expired and revoked is reported
\* expired.
C10_CheckOrder ==
    /\ Cardinality({INVALID, EXPIRED, NEEDS_FRESH, REVOKED, MISSING}) = 5
    /\ \A tok \in Presentable \ {NoToken} :
          /\ \A e \in Endpoints :
                jwt_required(tok, e[1], e[2]) = C10_FirstFailure(tok, e[1], e[2])
          /\ LET x == C10_FirstFailure(tok, FALSE, FALSE) IN
             x.err # OK => /\ C10_Turned(verify_token_response(tok), x)
                           /\ C10_Turned(logout_response(tok), x)
          /\ LET x == C10_FirstFailure(tok, TRUE, FALSE) IN
             x.err # OK => C10_Turned(refresh_token_response(tok), x)
          /\ LET x == C10_FirstFailure(tok, FALSE, TRUE) IN
             x.err # OK =>
                 /\ \A id \in UserIdInputs : C10_Turned(delete_user_response(tok, id), x)
                 /\ \A c \in PasswordInputs, n \in PasswordInputs :
                       C10_Turned(change_password_response(tok, c, n, n), x)
    /\ \A tok \in issued :
          (RevokedLive(tok) /\ tok.exp <= now) =>
              /\ verify_token_response(tok).body = EXPIRED
              /\ verify_token_response(tok).lookups = 0

\* A token both expired and, by its entry, still revoked is reported expired
\* without a lookup; a forged copy of it is reported invalid.
C10_Witness ==
    \E tok \in issued :
        /\ RevokedLive(tok)
        /\ check_if_token_revoked(tok)
        /\ tok.exp <= now
        /\ verify_token_response(tok).body = EXPIRED
        /\ verify_token_response(tok).lookups = 0
        /\ verify_token_response(Forge(tok)).body = INVALID

\* The token-protected requests a client can make with a token, with what
\* they answer.
ProtectedResponses(tok) ==
    {verify_token_response(tok), logout_response(tok), refresh_token_response(tok)}
    \cup {delete_user_response(tok, id) : id \in UserIdInputs}
    \cup {change_password_response(tok, c, n, n) :
             c \in PasswordInputs, n \in PasswordInputs}

\* The statuses the specification gives a failed verification (section 7):
\* 401-class, or 503-class for StoreUnavailable.
FailClosedStatuses == {401, 503}

\* C11, as stated: whenever the Revocation Store is unavailable, every
\* token-protected request is answered with an authentication or
\* store-unavailable failure (401- or 503-class), never a success and never
\* the 500 of an exception nothing caught.
C11_FailClosed ==
    ~redis_up =>
        \A tok \in Presentable : \A r \in ProtectedResponses(tok) :
            r.status \in FailClosedStatuses

\* What delete_user answers a verified fresh token whose subject is not the
\* target id.
C12_ForbiddenAnswer ==
    \A tok \in Presentable, user_id \in UserIdInputs :
        (jwt_required(tok, FALSE, TRUE).err = OK /\ tok.sub # user_id) =>
            /\ delete_user_response(tok, user_id).status = 403
            /\ delete_user_response(tok, user_id).body = "Unauthorized to delete this user"

\* Such a request removes no row and writes nothing to the blocklist.
C12_ForbiddenStep ==
    ~UNCHANGED <<users, jwt_redis_blocklist, revoke_calls>> =>
        \A tok \in Presentable, user_id \in UserIdInputs :
            (jwt_required(tok, FALSE, TRUE).err = OK /\ tok.sub # user_id) =>
                ~delete_user(tok, user_id)

\* C12: delete_user with a fresh token whose subject differs from the target
\* user id is answered 403 Forbidden, deletes no user record and adds no
\* entry to the Revocation Store.
C12_CrossAccountDeleteForbidden == []C12_ForbiddenAnswer /\ [][C12_ForbiddenStep]_vars

\* A fresh token of one user aimed at the existing record of another.
C12_Witness ==
    \E tok \in issued, user_id \in DOMAIN users :
        /\ tok.fresh /\ tok.sub # user_id /\ tok.sub \in DOMAIN users
        /\ delete_user_response(tok, user_id).status = 403

\* A login for an email no row has.
NoSuchUser(email) == ByEmail(email) = {}

\* A login for an email a row has, with a password that is not the row's.
WrongPassword(email, password) ==
    /\ ByEmail(email) # {}
    /\ \A u \in ByEmail(email) : ~verify_password(users[u], password)

\* Both failures get the same answer, 401 with one message and no token.
C13_SameAnswer ==
    /\ \A email \in Emails, password \in Passwords :
          (NoSuchUser(email) \/ WrongPassword(email, password)) =>
              /\ login_response(email, password).status = 401
              /\ login_response(email, password).body = "Invalid email or password"
              /\ login_response(email, password).out = {}
    /\ \A e1 \in Emails, e2 \in Emails, p1 \in Passwords, p2 \in Passwords :
          (NoSuchUser(e1) /\ WrongPassword(e2, p2)) =>
              login_response(e1, p1) = login_response(e2, p2)

\* A failed login issues nothing and changes nothing.
C13_FailedLoginStep ==
    ~UNCHANGED vars =>
        \A email \in Emails, password \in Passwords :
            (NoSuchUser(email) \/ WrongPassword(email, password)) =>
                ~login(email, password)

\* C13: a login for an email with no user record and a login for an existing
\* user with a wrong password get the same answer (401 with the same
\* message), issue no token and change no state.
C13_UniformLoginFailure == []C13_SameAnswer /\ [][C13_FailedLoginStep]_vars

\* One email has lost its record, the other still has one, and a login fails
\* for each.
C13_Witness ==
    \E e1 \in Emails, e2 \in Emails, p \in Passwords :
        /\ NoSuchUser(e1) /\ WrongPassword(e2, p)
        /\ login_response(e1, p).status = 401
        /\ login_response(e2, p).status = 401

\* A refresh token the server issued that has neither expired nor been
\* revoked.
UsableRefreshToken(tok) ==
    /\ tok \in issued
    /\ tok.type = "refresh"
    /\ now < tok.exp
    /\ ~check_if_token_revoked(tok)

\* The refresh route takes exactly the usable refresh tokens, and answers
\* each with one new access token, not fresh, for the token's subject.
C14_RefreshAnswers ==
    \A tok \in Presentable :
        LET r == refresh_token_response(tok) IN
        /\ (r.status = 200) <=> UsableRefreshToken(tok)
        /\ UsableRefreshToken(tok) =>
              /\ Cardinality(r.out) = 1
              /\ \A t \in r.out :
                    /\ t.type = "access" /\ ~t.fresh /\ t.sub = tok.sub
                    /\ t.exp = now + NominalLifetime("access")
                    /\ \A i \in issued : t.jti # i.jti
        /\ (tok \in issued /\ tok.type = "access") =>
              /\ r.status = 401
              /\ r.out = {}
              /\ now < tok.exp => r.body = INVALID

\* A successful refresh hands out the token it answers with, writes nothing
\* to the blocklist and leaves the refresh token it was given usable.
C14_RefreshStep ==
    \A tok \in Presentable :
        (UsableRefreshToken(tok) /\ refresh_token(tok)) =>
            /\ issued' = issued \cup refresh_token_response(tok).out
            /\ UNCHANGED <<users, jwt_redis_blocklist>>
            /\ UsableRefreshToken(tok)'
            /\ (refresh_token_response(tok).status = 200)'

\* C14: refresh accepts only a valid refresh token (an access token is
\* rejected), mints a new access token with fresh=false for the same subject
\* and leaves the refresh token usable, use after use, until it expires or is
\* revoked.
C14_RefreshReusable == []C14_RefreshAnswers /\ [][C14_RefreshStep]_vars

\* A refresh token has been used, time has passed, and it is still taken.
C14_Witness ==
    \E tok \in issued, a \in issued :
        /\ UsableRefreshToken(tok)
        /\ minted_by[a.jti] = "refresh" /\ a.sub = tok.sub /\ ~a.fresh
        /\ a.iat < now
        /\ refresh_token_response(tok).status = 200

\* The ids the Revocation Store holds at this moment.
RevokedIds == {j \in DOMAIN jwt_redis_blocklist : RedisGet(j) # "nil"}

\* The ids the store would hold had revoke been called once only on each id,
\* the first time.
RevokedIdsOnce ==
    {j \in DOMAIN revoke_calls :
        now < revoke_calls[j].first + NominalLifetime(revoke_calls[j].type)}

\* Verification (section 4.3) against a store in which the given ids are
\* revoked.
VerifyAgainst(ids, tok, refresh, fresh) ==
    IF tok = NoToken THEN MISSING
    ELSE IF tok.sig # "good" THEN INVALID
    ELSE IF ~(now < tok.exp) THEN EXPIRED
    ELSE IF refresh # (tok.type = "refresh") THEN INVALID
    ELSE IF fresh /\ ~tok.fresh THEN NEEDS_FRESH
    ELSE IF tok.jti \in ids THEN REVOKED
    ELSE OK

\* Every verification comes out as it would had each id been revoked once.
C15_SameOutcomes ==
    \A tok \in Presentable : \A e \in Endpoints :
        jwt_required(tok, e[1], e[2]).err = VerifyAgainst(RevokedIdsOnce, tok, e[1], e[2])

\* A second call leaves the ids that one call revoked in the store; an id it
\* holds longer than one call would belongs to a token that has expired.
C15_SameIdsWhileTokenLives ==
    /\ RevokedIdsOnce \subseteq RevokedIds
    /\ \A tok \in issued :
          tok.jti \in RevokedIds \ RevokedIdsOnce => tok.exp <= now

\* SET key "" EX ttl on a store.
SetEx(store, key, ttl) ==
    [k \in DOMAIN store \cup {key} |-> IF k = key THEN now + ttl ELSE store[k]]

\* The store had revoke never been called on the id.
NeverRevoked(jti) ==
    [k \in DOMAIN jwt_redis_blocklist \ {jti} |-> jwt_redis_blocklist[k]]

\* A call on an id revoke was called on before leaves the store as the call
\* alone would have left it; when the id is still in the store, the set of
\* revoked ids and every verification outcome are as they were before the
\* call, and a call at the instant of the one before leaves the store
\* identical.
C15_RepeatedCallStep ==
    \A tok \in issued :
        (tok.jti \in DOMAIN revoke_calls /\ revoke_token_call(tok)) =>
            /\ jwt_redis_blocklist' =
                  SetEx(NeverRevoked(tok.jti), tok.jti, NominalLifetime(tok.type))
            /\ RevokedIds' = RevokedIds \cup {tok.jti}
            /\ tok.jti \in RevokedIds =>
                  /\ RevokedIds' = RevokedIds
                  /\ \A t \in Presentable : \A e \in Endpoints :
                        \A before \in {jwt_required(t, e[1], e[2]).err} :
                            (jwt_required(t, e[1], e[2]).err = before)'
            /\ revoke_calls[tok.jti].at = now =>
                  jwt_redis_blocklist' = jwt_redis_blocklist

\* C15: calling revoke twice on the same token id leaves the Revocation
\* Store in the same observable state as calling it once: the same set of
\* revoked ids and the same verification outcomes.
C15_RevokeIdempotent ==
    /\ [](C15_SameOutcomes /\ C15_SameIdsWhileTokenLives)
    /\ [][C15_RepeatedCallStep]_vars

\* revoke has been called on an id a second time, later than the first while
\* the token was unexpired, and the token is turned away as revoked.
C15_Witness ==
    \E tok \in issued :
        /\ tok.jti \in DOMAIN revoke_calls
        /\ revoke_calls[tok.jti].first < revoke_calls[tok.jti].at
        /\ revoke_calls[tok.jti].at < tok.exp
        /\ tok.jti \in RevokedIds
        /\ verify_token_response(tok).body = REVOKED

\* The columns of a users row; "password" is not one of them.
UserColumns == {"username", "email", "password_hash", "reset_token"}

\* C16, as stated: after any assignment of a plaintext p to user.password,
\* verify_password(p) is true and verify_password(q) is false for every q
\* different from p, and no plaintext password is stored on the record.
C16_AssignmentRederivesHash ==
    \A u \in DOMAIN users, p \in PasswordValues, salt \in Salts :
        LET user == User_setattr_password(users[u], p, salt) IN
        /\ verify_password(user, p)
        /\ \A q \in PasswordValues \ {p} : ~verify_password(user, q)
        /\ DOMAIN user = UserColumns

\* C17, as stated: when the stored hash of a user is malformed or absent,
\* verify_password returns false instead of raising, and a login for that
\* user is answered as invalid credentials (401).
C17_VerifyFailsClosed ==
    \A email \in Emails, password \in Passwords :
        \A u \in ByEmail(email) :
            ~WellFormed(users[u].password_hash) =>
                /\ ~verify_password_raises(users[u])
                /\ login_response(email, password).status = 401
                /\ login_response(email, password).body = "Invalid email or password"

\* A verified fresh token whose own user record is gone is answered 404.
C18_NotFoundAnswer ==
    \A tok \in Presentable :
        (jwt_required(tok, FALSE, TRUE).err = OK /\ tok.sub \notin DOMAIN users) =>
            /\ delete_user_response(tok, tok.sub).status = 404
            /\ delete_user_response(tok, tok.sub).body = "User not found"

\* Whenever a step removes a user record, the Revocation Store then holds
\* the id of a fresh token of that user, put there by that request.
C18_RevokedWhenDeleted ==
    \A user_id \in DOMAIN users :
        user_id \notin DOMAIN users' =>
            \E tok \in issued :
                /\ tok.sub = user_id /\ tok.fresh
                /\ delete_user(tok, user_id)
                /\ (RedisGet(tok.jti) # "nil")'
                /\ revoke_calls'[tok.jti].at = now

\* A request answered 404, and one whose revoke call fails, remove no record
\* and write nothing to the store.
C18_NothingDeletedOtherwise ==
    \A tok \in Presentable, user_id \in UserIdInputs :
        \/ (delete_user_response(tok, user_id).status = 404 /\ delete_user(tok, user_id))
        \/ delete_user_redis_lost(tok, user_id)
        => UNCHANGED <<users, jwt_redis_blocklist, revoke_calls>>

\* C18: in delete_user the presented token is revoked before the user
\* record is deleted: whenever the request removes the record, its token id
\* is in the Revocation Store; when the user is not found (404) or the
\* revoke call fails, no record is deleted.
C18_RevokeBeforeDelete ==
    /\ []C18_NotFoundAnswer
    /\ [][C18_RevokedWhenDeleted /\ C18_NothingDeletedOtherwise]_vars

\* An account has been deleted with one of its fresh tokens, which the store
\* now holds; the other fresh token of the account is answered 404.
C18_Witness ==
    \E a \in issued, b \in issued :
        /\ a.sub = b.sub /\ a.sub \notin DOMAIN users
        /\ a.jti \in DOMAIN revoke_calls /\ RedisGet(a.jti) # "nil"
        /\ delete_user_response(b, b.sub).status = 404

\* The ways a confirm request falls short of full success.
MissingField(token, p, c) == token = NoResetToken \/ p = None \/ c = None
Mismatch(p, c) == p # c
TooShort(p) == Len(p) < 6
NoMatch(token) == \A u \in DOMAIN users : users[u].reset_token # token
ConfirmFalls(token, p, c) ==
    MissingField(token, p, c) \/ Mismatch(p, c) \/ TooShort(p) \/ NoMatch(token)

\* A confirm request that falls short is answered 400 and only a request
\* that does not is answered 200; a token on a row is still taken after any
\* request that fell short.
C19_FailureAnswers ==
    \A token \in ResetTokenInputs, p \in PasswordInputs, c \in PasswordInputs :
        LET r == reset_password_with_token_response(token, p, c) IN
        /\ ConfirmFalls(token, p, c) <=> r.status # 200
        /\ ConfirmFalls(token, p, c) => r.status = 400
        /\ (~MissingField(token, p, c) /\ ~Mismatch(p, c) /\ TooShort(p)) =>
              r.body = "Password must be at least 6 characters long"

\* No step that changes a password hash or a reset token is a confirm
\* request that fell short.
C19_FailureStep ==
    users' # users =>
        \A token \in ResetTokenInputs, p \in PasswordInputs, c \in PasswordInputs :
            ConfirmFalls(token, p, c) => ~reset_password_with_token(token, p, c)

\* C19: confirmReset changes state only on full success: with a field
\* missing, a confirmation that does not match, a new password shorter than 6
\* characters or a token that matches no user, no password hash and no reset
\* token is changed, and a policy-violating attempt with a valid token does
\* not use the token up.
C19_ConfirmChangesOnlyOnSuccess == []C19_FailureAnswers /\ [][C19_FailureStep]_vars

\* A token is on a row: an attempt with a short password and one with a
\* confirmation that does not match are turned away, and the token is taken
\* with a password that meets the policy.
C19_Witness ==
    \E u \in DOMAIN users :
        /\ users[u].reset_token # NoResetToken
        /\ reset_password_with_token_response(users[u].reset_token, "abc", "abc").status = 400
        /\ reset_password_with_token_response(users[u].reset_token, "secret1", "hunter22").status = 400
        /\ reset_password_with_token_response(users[u].reset_token, "secret1", "secret1").status = 200

\* What a confirm request is answered when its fields do not pass validation.
ValidationAnswers ==
    {"Missing fields", "Passwords do not match",
     "Password must be at least 6 characters long"}

\* C20, as stated: of two confirm requests handled at the same time with the
\* same valid reset token and fields that pass validation, at most one
\* succeeds in changing the password and the other is answered "Invalid or
\* expired token".
C20_TokenConsumedOnce ==
    \A w1 \in Workers, w2 \in Workers :
        (/\ w1 # w2
         /\ confirming[w1].pc = "done" /\ confirming[w2].pc = "done"
         /\ confirming[w1].token = confirming[w2].token
         /\ confirming[w1].status = 200
         /\ confirming[w2].body \notin ValidationAnswers)
        => /\ confirming[w2].status = 400
           /\ confirming[w2].body = INVALID_OR_EXPIRED

\* The conditions under which changePassword may replace the hash.
MayChangePassword(tok, c, n, k) ==
    /\ tok \in issued /\ tok.fresh
    /\ tok.sub \in DOMAIN users
    /\ c # None /\ verify_password(users[tok.sub], c)
    /\ n # None /\ n = k
    /\ Len(n) >= 6

\* change_password answers 200 only under those conditions, and under them
\* it does for a token that is unexpired and not revoked.  A token the
\* decorator turns away is answered by the decorator, whatever the body.
C21_ChangeAnswers ==
    \A tok \in Presentable :
        LET v == jwt_required(tok, FALSE, TRUE) IN
        IF v.err # OK
        THEN \A c \in PasswordInputs, n \in PasswordInputs :
                change_password_response(tok, c, n, n) = Rejected(v)
        ELSE \A c \in PasswordInputs, n \in PasswordInputs, k \in PasswordInputs :
                (change_password_response(tok, c, n, k).status = 200)
                    <=> MayChangePassword(tok, c, n, k)

\* Whenever the password hash of a user changes, the step is a
\* change_password request under those conditions, for that user, and the
\* new password is the one that verifies afterwards.
C21_HashChangeStep ==
    \A u \in DOMAIN users :
        (u \in DOMAIN users' /\ users'[u].password_hash # users[u].password_hash) =>
            \E tok \in issued, c \in Passwords, n \in Passwords :
                /\ tok.sub = u
                /\ MayChangePassword(tok, c, n, n)
                /\ change_password(tok, c, n, n)
                /\ verify_password(users[u], n)'
                /\ (~verify_password(users[u], c))'

\* A change_password request outside those conditions leaves every row as
\* it was, so the old password still verifies.
C21_NoChangeStep ==
    (\E u \in DOMAIN users \cap DOMAIN users' : users'[u].password_hash # users[u].password_hash) =>
        \A tok \in Presentable :
            \A c \in PasswordInputs, n \in PasswordInputs, k \in PasswordInputs :
                ~MayChangePassword(tok, c, n, k) => ~change_password(tok, c, n, k)

\* C21: change_password replaces the stored hash only when the token is
\* fresh, current_password verifies against the stored hash, new_password
\* equals confirm_password and new_password has at least 6 characters; in
\* every other case the hash is unchanged and the old password still
\* verifies.
C21_ChangePasswordFrame ==
    /\ []C21_ChangeAnswers
    /\ [][~UNCHANGED users => (C21_HashChangeStep /\ C21_NoChangeStep)]_vars

\* alice has changed her password with a fresh token: the new one verifies,
\* the one she registered with does not.
C21_Witness ==
    \E tok \in issued :
        /\ tok.sub = 1 /\ tok.fresh /\ 1 \in DOMAIN users
        /\ verify_password(users[1], "hunter22")
        /\ ~verify_password(users[1], "secret1")

\* ---------------------------------------------------------------- C22
\* A step that changes the Revocation Store is a logout or a delete_user
\* that answered 200, and the store afterwards is the store before with the
\* id of the presented token set and every other entry as it was.
C22_StoreChangeStep ==
    \E tok \in issued :
        /\ \/ logout_response(tok).status = 200 /\ logout(tok)
           \/ delete_user_response(tok, tok.sub).status = 200 /\ delete_user(tok, tok.sub)
        /\ DOMAIN jwt_redis_blocklist' = DOMAIN jwt_redis_blocklist \cup {tok.jti}
        /\ \A j \in DOMAIN jwt_redis_blocklist \ {tok.jti} :
              jwt_redis_blocklist'[j] = jwt_redis_blocklist[j]

\* A step that changes the Revocation Store is no login, refresh,
\* verify-token, token-status, change_password or reset request.
C22_OtherOperationsStep ==
    /\ ~Login
    /\ ~RefreshToken
    /\ ~VerifyToken
    /\ ~TokenStatus
    /\ ~ChangePassword
    /\ ~RequestPasswordReset
    /\ ~ResetPasswordWithToken

\* The tokens that verify before a step that changes a password hash, by
\* change_password or by a reset, verify after it.
C22_TokensSurvivePasswordChange ==
    (\E u \in DOMAIN users \cap DOMAIN users' : users'[u].password_hash # users[u].password_hash) =>
        \A tok \in issued :
            verify_token_response(tok).status = 200 =>
                (verify_token_response(tok).status = 200)'

\* C22: the Revocation Store is changed only by a successful logout or
\* delete_user, each adding exactly the id of the presented token; every
\* other operation, and every failed request, leaves it unchanged, so the
\* tokens that verified before a password change or reset still verify
\* after it.
C22_StoreFrame ==
    [][/\ ~UNCHANGED jwt_redis_blocklist => (C22_StoreChangeStep /\ C22_OtherOperationsStep)
       /\ ~UNCHANGED users => C22_TokensSurvivePasswordChange]_vars

\* alice has changed her password and logged one session out; the id of
\* that session is in the store and another of her tokens still verifies.
C22_Witness ==
    /\ 1 \in DOMAIN users
    /\ ~verify_password(users[1], "secret1")
    /\ \E tok \in issued, out \in issued :
          /\ tok.sub = 1 /\ out.sub = 1
          /\ out.jti \in DOMAIN jwt_redis_blocklist
          /\ verify_token_response(tok).status = 200

\* ---------------------------------------------------------------- C23
\* The answer of the health check is a success answer.
Success(r) == r.status \in 200..299

\* The answer of the health check is of the 503 class.
Unavailable(r) == r.status \in 500..599

\* C23: the health check always answers; it reports the Revocation Store as
\* connected exactly when the store answers the ping, and when the store is
\* unreachable it reports an error store signal in a non-success, 503-class
\* response.
C23_HealthCheckDegrades ==
    /\ health_check_response.status \in 100..599
    /\ (health_check_response.body.redis_blacklist = "connected") <=> redis_up
    /\ ~redis_up =>
          /\ health_check_response.body.redis_blacklist = "error"
          /\ ~Success(health_check_response)
          /\ Unavailable(health_check_response)

\* What the route does: it always answers, the store signal follows the
\* ping, and the answer is 200 "healthy" whether or not the store answers.
C23_HealthCheckAlwaysHealthy ==
    /\ (health_check_response.body.redis_blacklist = "connected") <=> redis_up
    /\ ~redis_up => health_check_response.body.redis_blacklist = "error"
    /\ health_check_response.status = 200
    /\ health_check_response.body.status = "healthy"

\* The store is unreachable while sessions are open.
C23_Witness ==
    /\ ~redis_up
    /\ issued # {}
    /\ health_check_response.body.redis_blacklist = "error"

====
